---------------------------- MODULE Spec2Model ----------------------------
(***************************************************************************)
(* Model of the linear-system solver of QDOAS (linear_system.c): a system   *)
(* of m equations and n unknowns with two interchangeable backends (SVD    *)
(* and column-pivoted QR), column normalisation, weighting, decomposition  *)
(* and solve.                                                              *)
(*                                                                         *)
(* Numbers.  The code computes in IEEE doubles: finite precision, every    *)
(* operation rounded.  The model computes in fixed point: the integer k    *)
(* stands for k/Scale, products, quotients and square roots are rounded    *)
(* towards zero to a multiple of 1/Scale.  NaN stands for a double that is *)
(* not finite (inf, NaN).                                                  *)
(***************************************************************************)
EXTENDS Integers, Sequences, FiniteSets, TLC

(***************************************************************************)
(* Bounds of the model                                                     *)
(***************************************************************************)
Rows == 3          \* m: equations of the systems that are built
Scale == 100       \* the doubles are the multiples of 1/Scale
MaxCalls == 3      \* calls made on one handle after its construction

\* n: the unknowns (columns) of the systems that are built
Unknowns == {1, 2}

(***************************************************************************)
(* Arithmetic of the doubles                                               *)
(***************************************************************************)
Abs(a) == IF a < 0 THEN -a ELSE a
Sign(a) == IF a < 0 THEN -1 ELSE 1

NaN == -2147483647

Num(k) == k * Scale
Zero == 0
One == Num(1)

RAdd(p, q) == IF p = NaN \/ q = NaN THEN NaN ELSE p + q

RNeg(p) == IF p = NaN THEN NaN ELSE -p

RSub(p, q) == RAdd(p, RNeg(q))

RMul(p, q) ==
  IF p = NaN \/ q = NaN THEN NaN
  ELSE Sign(p) * Sign(q) * ((Abs(p) * Abs(q)) \div Scale)

\* IEEE division: x/0 is not finite
RDiv(p, q) ==
  IF p = NaN \/ q = NaN \/ q = 0 THEN NaN
  ELSE Sign(p) * Sign(q) * ((Abs(p) * Scale) \div Abs(q))

RIsZero(p) == p = 0
RPositive(p) == p # NaN /\ p > 0
RLess(p, q) == p # NaN /\ q # NaN /\ p < q

\* largest r with r*r <= k, by bisection on lo*lo <= k < hi*hi
RECURSIVE ISqrtBetween(_, _, _)
ISqrtBetween(k, lo, hi) ==
  IF hi - lo <= 1 THEN lo
  ELSE LET mid == (lo + hi) \div 2
       IN IF mid * mid <= k THEN ISqrtBetween(k, mid, hi)
          ELSE ISqrtBetween(k, lo, mid)
ISqrt(k) == ISqrtBetween(k, 0, IF k + 1 < 46341 THEN k + 1 ELSE 46341)

\* sqrt()
RSqrt(p) == IF p = NaN \/ p < 0 THEN NaN ELSE ISqrt(p * Scale)

\* sum of f[i] over the finite set S of integers, in increasing order
RECURSIVE RSum(_, _)
RSum(S, f) ==
  IF S = {} THEN Zero
  ELSE LET i == CHOOSE k \in S : \A l \in S : k <= l
       IN RAdd(f[i], RSum(S \ {i}, f))


(***************************************************************************)
(* Vectors and matrices                                                    *)
(***************************************************************************)
\* NULL for a pointer to doubles
NULL == <<>>
IsNull(p) == DOMAIN p = {}

Dot(u, v, S) == RSum(S, [i \in S |-> RMul(u[i], v[i])])

\* squaredNorm(): the sum of the squares of v over S
SquaredNorm(v, S) == Dot(v, v, S)

\* determinant of the square matrix G restricted to rows R and columns C
\* (sets of integers of the same size), by expansion along the first row
RECURSIVE Det(_, _, _)
Det(G, R, C) ==
  IF R = {} THEN One
  ELSE LET r == CHOOSE k \in R : \A l \in R : k <= l
           sign(c) == IF Cardinality({l \in C : l < c}) % 2 = 0 THEN One ELSE Num(-1)
       IN RSum(C, [c \in C |->
            RMul(sign(c), RMul(G[r][c], Det(G, R \ {r}, C \ {c})))])

\* the solution y over index set P of  G y = r  (G nonsingular on P), by Cramer's rule
CramerSolve(G, r, P) ==
  LET d == Det(G, P, P)
  IN [j \in P |->
       RDiv(Det([i \in P |-> [k \in P |-> IF k = j THEN r[i] ELSE G[i][k]]], P, P), d)]

\* the inverse of G over index set P (G nonsingular on P)
Inverse(G, P) ==
  LET cols == [k \in P |-> CramerSolve(G, [i \in P |-> IF i = k THEN One ELSE Zero], P)]
  IN [i \in P |-> [k \in P |-> cols[k][i]]]

(***************************************************************************)
(* The linear system (struct linear_system)                                *)
(***************************************************************************)
DECOMP_SVD == "DECOMP_SVD"
DECOMP_EIGEN_QR == "DECOMP_EIGEN_QR"
Modes == {DECOMP_SVD, DECOMP_EIGEN_QR}

ERROR_ID_NO == "ERROR_ID_NO"
ERROR_ID_NORMALIZE == "ERROR_ID_NORMALIZE"
ERROR_ID_ALLOC == "ERROR_ID_ALLOC"

\* no system: a null struct linear_system *
NoSystem == [mode |-> "NULL"]
IsSystem(s) == s.mode \in Modes

\* MEMORY_AllocDMatrix(.., 1, nrh, 1, nch): a matrix indexed [column][row],
\* columns 1..nch, rows 1..nrh, every entry v
DMatrix(nrh, nch, v) == [c \in 1..nch |-> [r \in 1..nrh |-> v]]
DVector(nh, v) == [k \in 1..nh |-> v]

\* Eigen's Matrix2d(m, n): indexed (row, column) from 0
EigenMatrix(m, n, v) == [i \in 0..(m - 1) |-> [j \in 0..(n - 1) |-> v]]

\* Eigen's ColPivHouseholderQR(m, n): storage reserved, nothing factorised
EmptyQR == [computed |-> FALSE, matrix |-> <<>>]

\* the stored design-matrix entry in row i, column j (both from 1)
Entry(s, i, j) ==
  IF s.mode = DECOMP_SVD THEN s.decomposition.U[j][i]
  ELSE s.decomposition.A[i - 1][j - 1]

\* column j (from 1) of the stored design matrix, as a vector over 1..m
Column(s, j) == [i \in 1..s.m |-> Entry(s, i, j)]

\* the stored design matrix, indexed [row][column] from 1
DesignMatrix(s) == [i \in 1..s.m |-> [j \in 1..s.n |-> Entry(s, i, j)]]

(***************************************************************************)
(* LINEAR_alloc.  `new double[n]` and Eigen's Matrix2d(m, n) leave their   *)
(* doubles uninitialised: junkNorms and junkA are the values they happen   *)
(* to hold.  The SVD arrays are allocated by MEMORY_AllocDMatrix/DVector   *)
(* (contents junkSVD) and then set to zero entry by entry.                 *)
(***************************************************************************)
LINEAR_alloc(m, n, mode, junkNorms, junkA, junkSVD) ==
  [m |-> m, n |-> n, mode |-> mode,
   norms |-> [j \in 0..(n - 1) |-> junkNorms],
   decomposition |->
     IF mode = DECOMP_SVD
     THEN LET U0 == DMatrix(m, n, junkSVD)
              V0 == DMatrix(n, n, junkSVD)
              W0 == DVector(n, junkSVD)
          IN [U |-> [c \in 1..n |-> [r \in 1..m |->
                      IF (c - 1) \in 0..(n - 1) /\ (r - 1) \in 0..(m - 1)
                      THEN Zero ELSE U0[c][r]]],
              V |-> [c \in 1..n |-> [r \in 1..n |->
                      IF (c - 1) \in 0..(n - 1) /\ (r - 1) \in 0..(n - 1)
                      THEN Zero ELSE V0[c][r]]],
              W |-> [k \in 1..n |->
                      IF (k - 1) \in 0..(n - 1) THEN Zero ELSE W0[k]]]
     ELSE [A |-> EigenMatrix(m, n, junkA), QR |-> EmptyQR]]

\* What an allocation that cannot be satisfied does to LINEAR_alloc.
\*   "new": operator new throws std::bad_alloc; nothing in the module catches it.
\*   "MEMORY_Alloc": MEMORY_AllocDMatrix returns NULL (as LINEAR_fit_poly's test of
\*   its result shows); the zeroing loop then writes U[1+j][1+i] through it.
AllocOutcome(mode, fail) ==
  CASE fail = "none" -> "ok"
    [] fail = "new" -> "bad_alloc"
    [] fail = "MEMORY_Alloc" -> "null_write"

\* FromMatrixCopy with the SVD loop over the columns stopping one short (i < n)
FromMatrixCopy_SkipsLastColumn(s0, a) ==
  IF s0.mode = DECOMP_SVD
  THEN [s0 EXCEPT !.decomposition.U =
          [i \in 1..s0.n |-> [j \in 1..s0.m |-> IF i < s0.n THEN a[i][j] ELSE @[i][j]]]]
  ELSE [s0 EXCEPT !.decomposition.A =
          [i \in 0..(s0.m - 1) |-> [j \in 0..(s0.n - 1) |-> a[1 + j][1 + i]]]]

\* LINEAR_from_matrix: the copy of a (indexed [column][row] from 1) into the system
\* that LINEAR_alloc returned
FromMatrixCopy(s0, a) ==
  IF s0.mode = DECOMP_SVD
  THEN [s0 EXCEPT !.decomposition.U =
          [i \in 1..s0.n |-> [j \in 1..s0.m |-> a[i][j]]]]
  ELSE [s0 EXCEPT !.decomposition.A =
          [i \in 0..(s0.m - 1) |-> [j \in 0..(s0.n - 1) |-> a[1 + j][1 + i]]]]

LINEAR_from_matrix(a, m, n, mode, junkNorms, junkA, junkSVD) ==
  FromMatrixCopy(LINEAR_alloc(m, n, mode, junkNorms, junkA, junkSVD), a)

\* LINEAR_set_column with the QR branch writing Eigen column n instead of n - 1
LINEAR_set_column_ColumnFromZero(s, n, values) ==
  IF s.mode = DECOMP_SVD
  THEN [s EXCEPT !.decomposition.U[n] =
          [r \in 1..s.m |-> IF (r - 1) \in 0..(s.m - 1) THEN values[r] ELSE @[r]]]
  ELSE [s EXCEPT !.decomposition.A =
          [i \in 0..(s.m - 1) |-> [j \in 0..(s.n - 1) |->
             IF j = n THEN values[1 + i] ELSE @[i][j]]]]

\* LINEAR_set_column: values is indexed from 1, n is the column from 1
LINEAR_set_column(s, n, values) ==
  IF s.mode = DECOMP_SVD
  THEN [s EXCEPT !.decomposition.U[n] =
          [r \in 1..s.m |-> IF (r - 1) \in 0..(s.m - 1) THEN values[r] ELSE @[r]]]
  ELSE [s EXCEPT !.decomposition.A =
          [i \in 0..(s.m - 1) |-> [j \in 0..(s.n - 1) |->
             IF j = n - 1 THEN values[1 + i] ELSE @[i][j]]]]

\* LINEAR_set_weight with the SVD branch indexing sigma by the column (i) instead
\* of the row (j)
LINEAR_set_weight_SigmaByColumn(s, sigma) ==
  IF IsNull(sigma) THEN s
  ELSE IF s.mode = DECOMP_SVD
  THEN [s EXCEPT !.decomposition.U =
          [i \in 1..s.n |-> [j \in 1..s.m |-> RDiv(@[i][j], sigma[i - 1])]]]
  ELSE [s EXCEPT !.decomposition.A =
          [i \in 0..(s.m - 1) |-> [j \in 0..(s.n - 1) |-> RDiv(@[i][j], sigma[i])]]]

\* LINEAR_set_weight subtracting sigma (-=) where the code divides by it (/=)
LINEAR_set_weight_Subtracts(s, sigma) ==
  IF IsNull(sigma) THEN s
  ELSE IF s.mode = DECOMP_SVD
  THEN [s EXCEPT !.decomposition.U =
          [i \in 1..s.n |-> [j \in 1..s.m |-> RSub(@[i][j], sigma[j - 1])]]]
  ELSE [s EXCEPT !.decomposition.A =
          [i \in 0..(s.m - 1) |-> [j \in 0..(s.n - 1) |-> RSub(@[i][j], sigma[i])]]]

\* LINEAR_set_weight: sigma is indexed from 0, or NULL
LINEAR_set_weight(s, sigma) ==
  IF IsNull(sigma) THEN s
  ELSE IF s.mode = DECOMP_SVD
  THEN [s EXCEPT !.decomposition.U =
          [i \in 1..s.n |-> [j \in 1..s.m |-> RDiv(@[i][j], sigma[j - 1])]]]
  ELSE [s EXCEPT !.decomposition.A =
          [i \in 0..(s.m - 1) |-> [j \in 0..(s.n - 1) |-> RDiv(@[i][j], sigma[i])]]]

\* LINEAR_GetNorm
LINEAR_GetNorm(s, indexNorm) == s.norms[indexNorm]

(***************************************************************************)
(* The SVD backend (vector.c, svd.c)                                       *)
(***************************************************************************)
\* VECTOR_NormalizeVector(v, dim, &fact): v, indexed from 1, is divided by its
\* Euclidean norm, which is stored in fact; a zero norm is an error and
\* nothing is written.
VECTOR_NormalizeVector(v, dim, fact) ==
  LET norm == RSqrt(SquaredNorm(v, 1..dim))
  IN IF RIsZero(norm)
     THEN [rc |-> ERROR_ID_NORMALIZE, v |-> v, fact |-> fact]
     ELSE [rc |-> ERROR_ID_NO,
           v |-> [i \in DOMAIN v |-> IF i \in 1..dim THEN RDiv(v[i], norm) ELSE v[i]],
           fact |-> norm]

\* the pairs <<p, q>>, p < q <= n, in the order a Jacobi sweep visits them
RECURSIVE PairsFrom(_, _, _)
PairsFrom(p, q, n) ==
  IF p >= n THEN <<>>
  ELSE IF q > n THEN PairsFrom(p + 1, p + 2, n)
  ELSE <<<<p, q>>>> \o PairsFrom(p, q + 1, n)

\* the tangent of the rotation angle for the Gram entries a = up.up, d = uq.uq,
\* c = up.uq of two columns (c # 0)
RotationTangent(zeta) ==
  IF zeta < 0
  THEN RNeg(RDiv(One, RAdd(RNeg(zeta), RSqrt(RAdd(One, RMul(zeta, zeta))))))
  ELSE RDiv(One, RAdd(zeta, RSqrt(RAdd(One, RMul(zeta, zeta)))))

RotationCosine(tn) == RDiv(One, RSqrt(RAdd(One, RMul(tn, tn))))

\* the vectors p and q of M (over index set S) rotated by cosine cs, sine sn
RotateVectors(M, S, p, q, cs, sn) ==
  [k \in DOMAIN M |->
     IF k = p THEN [i \in S |-> RSub(RMul(cs, M[p][i]), RMul(sn, M[q][i]))]
     ELSE IF k = q THEN [i \in S |-> RAdd(RMul(sn, M[p][i]), RMul(cs, M[q][i]))]
     ELSE M[k]]

RotateBy(uv, p, q, m, n, cs, tn) ==
  [U |-> RotateVectors(uv.U, 1..m, p, q, cs, RMul(cs, tn)),
   V |-> RotateVectors(uv.V, 1..n, p, q, cs, RMul(cs, tn))]

RotateByTangent(uv, p, q, m, n, tn) ==
  RotateBy(uv, p, q, m, n, RotationCosine(tn), tn)

RotateGram(uv, p, q, m, n, a, d, c) ==
  IF RIsZero(c) THEN uv
  ELSE RotateByTangent(uv, p, q, m, n,
                       RotationTangent(RDiv(RSub(d, a), RMul(Num(2), c))))

\* one plane rotation making columns p and q of U orthogonal; V follows
Rotate(uv, p, q, m, n) ==
  RotateGram(uv, p, q, m, n,
             Dot(uv.U[p], uv.U[p], 1..m),
             Dot(uv.U[q], uv.U[q], 1..m),
             Dot(uv.U[p], uv.U[q], 1..m))

RECURSIVE Sweep(_, _, _, _)
Sweep(uv, pairs, m, n) ==
  IF pairs = <<>> THEN uv
  ELSE Sweep(Rotate(uv, Head(pairs)[1], Head(pairs)[2], m, n), Tail(pairs), m, n)

\* the indices 1..n ordered by decreasing W
RECURSIVE OrderDesc(_, _)
OrderDesc(W, S) ==
  IF S = {} THEN <<>>
  ELSE LET k == CHOOSE i \in S : \A l \in S :
                   RLess(W[l], W[i]) \/ (~RLess(W[i], W[l]) /\ i <= l)
       IN <<k>> \o OrderDesc(W, S \ {k})

\* SVD_Dcmp: the matrix in U (n columns of m entries) is replaced by its left
\* singular vectors; W gets the singular values, largest first; V[k] is the k-th
\* right singular vector.  One-sided Jacobi: exact, up to the rounding of sqrt(),
\* for the n <= 2 of this model.
SVD_Dcmp(svd, m, n) ==
  LET id == [k \in 1..n |-> [j \in 1..n |-> IF j = k THEN One ELSE Zero]]
      uv == Sweep([U |-> svd.U, V |-> id], PairsFrom(1, 2, n), m, n)
      w  == [k \in 1..n |-> RSqrt(SquaredNorm(uv.U[k], 1..m))]
      u  == [k \in 1..n |-> [i \in 1..m |->
               IF RIsZero(w[k]) THEN uv.U[k][i] ELSE RDiv(uv.U[k][i], w[k])]]
      ord == OrderDesc(w, 1..n)
  IN [U |-> [k \in 1..n |-> u[ord[k]]],
      V |-> [k \in 1..n |-> uv.V[ord[k]]],
      W |-> [k \in 1..n |-> w[ord[k]]]]

\* the covariance SVD_Dcmp returns: sum over the non-zero singular values k of
\* V[k][i] V[k][j] / W[k]^2
SVD_Covar(svd, n) ==
  LET K == {k \in 1..n : ~RIsZero(svd.W[k])}
  IN [i \in 1..n |-> [j \in 1..n |->
       RSum(K, [k \in K |->
         RDiv(RMul(svd.V[k][i], svd.V[k][j]), RMul(svd.W[k], svd.W[k]))])]]

\* SVD_Bksb: x[j] = sum over the non-zero singular values k of V[k][j] (U[k].b) / W[k]
SVD_Bksb(svd, m, n, b) ==
  LET K == {k \in 1..n : ~RIsZero(svd.W[k])}
  IN [j \in 1..n |->
       RSum(K, [k \in K |->
         RDiv(RMul(svd.V[k][j], Dot(svd.U[k], b, 1..m)), svd.W[k])])]

(***************************************************************************)
(* The QR backend (Eigen::ColPivHouseholderQR)                             *)
(***************************************************************************)
\* A' * A for an Eigen matrix A (m x n, indexed from 0)
Gram(A, m, n) ==
  [i \in 0..(n - 1) |-> [k \in 0..(n - 1) |->
     RSum(0..(m - 1), [r \in 0..(m - 1) |-> RMul(A[r][i], A[r][k])])]]

\* the columns the pivoting keeps: each column that is independent of those kept
\* before it (all columns have the same norm when compute() runs, so the
\* pivoting takes them in index order)
RECURSIVE Pivots(_, _, _, _)
Pivots(G, j, n, P) ==
  IF j >= n THEN P
  ELSE IF RIsZero(Det(G, P \cup {j}, P \cup {j})) THEN Pivots(G, j + 1, n, P)
  ELSE Pivots(G, j + 1, n, P \cup {j})

\* QR->solve(vb): the least-squares solution of matrix * vx = vb, with the
\* unknowns of the columns the pivoting dropped set to 0
QRSolve(QR, vb, m, n) ==
  LET A == QR.matrix
      G == Gram(A, m, n)
      P == Pivots(G, 0, n, {})
      r == [i \in 0..(n - 1) |->
              RSum(0..(m - 1), [k \in 0..(m - 1) |-> RMul(A[k][i], vb[k])])]
      y == CramerSolve(G, r, P)
  IN [j \in 0..(n - 1) |-> IF j \in P THEN y[j] ELSE Zero]

\* (A' * A).llt().solve(Identity): the inverse; not finite when A' * A is singular
LLTInverse(A, m, n) ==
  LET G == Gram(A, m, n)
  IN IF RIsZero(Det(G, 0..(n - 1), 0..(n - 1)))
     THEN [i \in 0..(n - 1) |-> [j \in 0..(n - 1) |-> NaN]]
     ELSE Inverse(G, 0..(n - 1))

(***************************************************************************)
(* LINEAR_decompose                                                        *)
(***************************************************************************)
\* SVD mode: the normalisation loop from column i on; stops at the first error
RECURSIVE NormalizeSVD(_, _)
NormalizeSVD(s, i) ==
  IF i >= s.n THEN [rc |-> ERROR_ID_NO, s |-> s]
  ELSE LET r == VECTOR_NormalizeVector(s.decomposition.U[1 + i], s.m, s.norms[i])
       IN IF r.rc # ERROR_ID_NO THEN [rc |-> r.rc, s |-> s]
          ELSE NormalizeSVD([s EXCEPT !.decomposition.U[1 + i] = r.v,
                                      !.norms[i] = r.fact], i + 1)

\* NormalizeQR returning the untouched rc (ERROR_ID_NO) at a zero column
RECURSIVE NormalizeQR_ReturnsRc(_, _)
NormalizeQR_ReturnsRc(s, j) ==
  IF j >= s.n THEN [rc |-> ERROR_ID_NO, s |-> s]
  ELSE LET A == s.decomposition.A
           sq == RSum(0..(s.m - 1), [i \in 0..(s.m - 1) |-> RMul(A[i][j], A[i][j])])
       IN IF RIsZero(sq)
          THEN [rc |-> ERROR_ID_NO, s |-> [s EXCEPT !.norms[j] = sq]]
          ELSE NormalizeQR_ReturnsRc(
                 [s EXCEPT !.norms[j] = RSqrt(sq),
                           !.decomposition.A =
                              [i \in 0..(s.m - 1) |-> [k \in 0..(s.n - 1) |->
                                 IF k = j THEN RDiv(A[i][k], RSqrt(sq)) ELSE A[i][k]]]],
                 j + 1)

\* NormalizeQR testing every column for a zero norm before it divides any
RECURSIVE NormalizeQR_TestsAllFirst(_, _)
NormalizeQR_TestsAllFirst(s, j) ==
  IF j >= s.n THEN [rc |-> ERROR_ID_NO, s |-> s]
  ELSE LET A == s.decomposition.A
           sq == [k \in 0..(s.n - 1) |->
                    RSum(0..(s.m - 1), [i \in 0..(s.m - 1) |-> RMul(A[i][k], A[i][k])])]
       IN IF \E k \in j..(s.n - 1) : RIsZero(sq[k])
          THEN [rc |-> ERROR_ID_NORMALIZE, s |-> s]
          ELSE NormalizeQR_TestsAllFirst(
                 [s EXCEPT !.norms[j] = RSqrt(sq[j]),
                           !.decomposition.A =
                              [i \in 0..(s.m - 1) |-> [k \in 0..(s.n - 1) |->
                                 IF k = j THEN RDiv(A[i][k], RSqrt(sq[j])) ELSE A[i][k]]]],
                 j + 1)

\* QR mode: the normalisation loop from column j on; returns at the first zero column
RECURSIVE NormalizeQR(_, _)
NormalizeQR(s, j) ==
  IF j >= s.n THEN [rc |-> ERROR_ID_NO, s |-> s]
  ELSE LET A == s.decomposition.A
           sq == RSum(0..(s.m - 1), [i \in 0..(s.m - 1) |-> RMul(A[i][j], A[i][j])])
       IN IF RIsZero(sq)
          THEN [rc |-> ERROR_ID_NORMALIZE, s |-> [s EXCEPT !.norms[j] = sq]]
          ELSE LET nrm == RSqrt(sq)
               IN NormalizeQR(
                    [s EXCEPT !.norms[j] = nrm,
                              !.decomposition.A =
                                 [i \in 0..(s.m - 1) |-> [k \in 0..(s.n - 1) |->
                                    IF k = j THEN RDiv(A[i][k], nrm) ELSE A[i][k]]]],
                    j + 1)

\* sigmasquare and covar are the caller's buffers (indexed from 1), or NULL
DecomposeSVD(s, sigmasquare, covar) ==
  LET nz == NormalizeSVD(s, 0)
  IN IF nz.rc # ERROR_ID_NO
     THEN [rc |-> nz.rc, s |-> nz.s, sigmasquare |-> sigmasquare, covar |-> covar]
     ELSE LET svd == SVD_Dcmp(nz.s.decomposition, s.m, s.n)
              cv == SVD_Covar(svd, s.n)
              nrm == nz.s.norms
          IN [rc |-> ERROR_ID_NO,
              s |-> [nz.s EXCEPT !.decomposition = svd],
              covar |-> IF IsNull(covar) THEN covar
                        ELSE [j \in 1..s.n |-> [i \in 1..s.n |->
                                RDiv(cv[j][i], RMul(nrm[i - 1], nrm[j - 1]))]],
              sigmasquare |-> IF IsNull(sigmasquare) THEN sigmasquare
                              ELSE [j \in 1..s.n |->
                                RDiv(cv[j][j], RMul(nrm[j - 1], nrm[j - 1]))]]

\* DecomposeQR writing covar without testing it for NULL
DecomposeQR_CovarUnchecked(s, sigmasquare, covar) ==
  LET nz == NormalizeQR(s, 0)
  IN IF nz.rc # ERROR_ID_NO
     THEN [rc |-> nz.rc, s |-> nz.s, sigmasquare |-> sigmasquare, covar |-> covar]
     ELSE LET A == nz.s.decomposition.A
              mc == LLTInverse(A, s.m, s.n)
              nrm == nz.s.norms
          IN [rc |-> ERROR_ID_NO,
              s |-> [nz.s EXCEPT !.decomposition.QR = [computed |-> TRUE, matrix |-> A]],
              covar |-> [i \in 1..s.n |-> [j \in 1..s.n |->
                           RDiv(mc[i - 1][j - 1], RMul(nrm[i - 1], nrm[j - 1]))]],
              sigmasquare |-> IF IsNull(sigmasquare) THEN sigmasquare
                              ELSE [i \in 1..s.n |->
                                RDiv(mc[i - 1][i - 1], RMul(nrm[i - 1], nrm[i - 1]))]]

DecomposeQR(s, sigmasquare, covar) ==
  LET nz == NormalizeQR(s, 0)
  IN IF nz.rc # ERROR_ID_NO
     THEN [rc |-> nz.rc, s |-> nz.s, sigmasquare |-> sigmasquare, covar |-> covar]
     ELSE LET A == nz.s.decomposition.A
              mc == LLTInverse(A, s.m, s.n)
              nrm == nz.s.norms
          IN [rc |-> ERROR_ID_NO,
              s |-> [nz.s EXCEPT !.decomposition.QR = [computed |-> TRUE, matrix |-> A]],
              covar |-> IF IsNull(covar) THEN covar
                        ELSE [i \in 1..s.n |-> [j \in 1..s.n |->
                                RDiv(mc[i - 1][j - 1], RMul(nrm[i - 1], nrm[j - 1]))]],
              sigmasquare |-> IF IsNull(sigmasquare) THEN sigmasquare
                              ELSE [i \in 1..s.n |->
                                RDiv(mc[i - 1][i - 1], RMul(nrm[i - 1], nrm[i - 1]))]]

LINEAR_decompose(s, sigmasquare, covar) ==
  IF s.mode = DECOMP_SVD THEN DecomposeSVD(s, sigmasquare, covar)
  ELSE DecomposeQR(s, sigmasquare, covar)

(***************************************************************************)
(* LINEAR_solve: b and x are indexed from 1                                *)
(***************************************************************************)
\* what the backend writes into x
BackendSolve(s, b, x) ==
  IF s.mode = DECOMP_SVD
  THEN SVD_Bksb(s.decomposition, s.m, s.n, b)
  ELSE LET vb == [i \in 0..(s.m - 1) |-> b[1 + i]]
           vx == QRSolve(s.decomposition.QR, vb, s.m, s.n)
       IN [j \in 1..s.n |-> vx[j - 1]]

\* Denormalize with the loop stopping one short (i < n - 1)
Denormalize_StopsEarly(s, x) ==
  [k \in DOMAIN x |-> IF (k - 1) \in 0..(s.n - 2) THEN RDiv(x[k], s.norms[k - 1]) ELSE x[k]]

\* the division of the solution by the normalisation factors
Denormalize(s, x) ==
  [k \in DOMAIN x |-> IF (k - 1) \in 0..(s.n - 1) THEN RDiv(x[k], s.norms[k - 1]) ELSE x[k]]

\* LINEAR_solve that, having divided the solution by the norms, resets them to 1
LINEAR_solve_ConsumesNorms(s, b, x) ==
  [rc |-> ERROR_ID_NO,
   s |-> [s EXCEPT !.norms = [j \in DOMAIN s.norms |-> One]],
   x |-> Denormalize(s, BackendSolve(s, b, x))]

LINEAR_solve(s, b, x) ==
  [rc |-> ERROR_ID_NO, s |-> s, x |-> Denormalize(s, BackendSolve(s, b, x))]

(***************************************************************************)
(* LINEAR_pinv: pinv is indexed [1..m][1..n]                               *)
(***************************************************************************)
\* 2.2204e-016, which is below the resolution 1/Scale of the numbers here
EPS == 0

Max(a, b) == IF a >= b THEN a ELSE b

\* line 288
PinvTolerance(s) == RMul(RMul(Num(Max(s.m, s.n)), s.decomposition.W[1]), EPS)

\* line 291: the first r in 1..n+1 that is n+1 or has W[r] <= tolerance
RECURSIVE PinvRank(_, _)
PinvRank(s, r) ==
  IF r <= s.n /\ RLess(PinvTolerance(s), s.decomposition.W[r])
  THEN PinvRank(s, r + 1)
  ELSE r

\* lines 294-301: every entry is set to 0, and those with j < r get the sum
\* over k < r of V[k][j]*U[k][i]/W[k]
PinvSVD(s, r) ==
  [i \in 1..s.m |-> [j \in 1..s.n |->
     IF j < r
     THEN RSum(1..(r - 1), [k \in 1..(r - 1) |->
             RDiv(RMul(s.decomposition.V[k][j], s.decomposition.U[k][i]),
                  s.decomposition.W[k])])
     ELSE Zero]]

\* LINEAR_pinv with the assertion of line 282 left out
LINEAR_pinv_NoAssert(s, out, ndebug, crashes, junk) ==
  IF s.mode = DECOMP_SVD
  THEN [fault |-> "none", pinv |-> PinvSVD(s, PinvRank(s, 1))]
  ELSE IF crashes THEN [fault |-> "segv", pinv |-> out]
  ELSE [fault |-> "none", pinv |-> [i \in 1..s.m |-> [j \in 1..s.n |-> junk]]]

\* ndebug: the build defines NDEBUG, so that assert() expands to nothing.  On a
\* QR system such a build reads the QR member of the union as a struct svd,
\* which is undefined: the call crashes, or fills the buffer with junk
LINEAR_pinv(s, out, ndebug, crashes, junk) ==
  IF s.mode = DECOMP_SVD
  THEN [fault |-> "none", pinv |-> PinvSVD(s, PinvRank(s, 1))]
  ELSE IF ~ndebug THEN [fault |-> "assert", pinv |-> out]
  ELSE IF crashes THEN [fault |-> "segv", pinv |-> out]
  ELSE [fault |-> "none", pinv |-> [i \in 1..s.m |-> [j \in 1..s.n |-> junk]]]

(***************************************************************************)
(* LINEAR_fit_poly: a, b and x are indexed from 1, sigma from 0 (or NULL)  *)
(***************************************************************************)
\* an address: a block the allocator returned, and an offset into it in elements
Address(block, offset) == [block |-> block, offset |-> offset]

\* A[i][j] as the fill loops compute it: 1.0 in the first column, and
\* a[j]*A[i-1][j] in column i
RECURSIVE VandermondeEntry(_, _)
VandermondeEntry(aj, i) ==
  IF i <= 1 THEN One ELSE RMul(aj, VandermondeEntry(aj, i - 1))

\* Vandermonde with the first column holding a[j] (a[j]^i in column i)
Vandermonde_FromFirstPower(num_eqs, num_unknowns, a) ==
  [i \in 1..num_unknowns |-> [j \in 1..num_eqs |-> VandermondeEntry(a[j], i + 1)]]

\* the matrix A, indexed [column][row] from 1
Vandermonde(num_eqs, num_unknowns, a) ==
  [i \in 1..num_unknowns |-> [j \in 1..num_eqs |-> VandermondeEntry(a[j], i)]]

\* sigma[j] as line 341 reads it: past is what lies behind the last element
SigmaAt(sigma, past, j) == IF j \in DOMAIN sigma THEN sigma[j] ELSE past

\* b_sigma after the loop of lines 340-342, indexed from 1: the block new double[]
\* returned holds junkB, and each element is divided by b[j]/sigma[j]
WeightedRhs(num_eqs, sigma, b, junkB, past) ==
  [j \in 1..num_eqs |-> RDiv(junkB, RDiv(b[j], SigmaAt(sigma, past, j)))]

\* what a run of LINEAR_fit_poly leaves behind: A is the matrix it filled, built
\* the system line 345 made of it, outputs the buffers line 348 handed to
\* LINEAR_decompose, rhs the right-hand side line 351 hands to LINEAR_solve
FitResult(rc, x, fault, A, built, outputs, rhs, calls, allocated, released) ==
  [rc |-> rc, x |-> x, fault |-> fault, A |-> A, built |-> built,
   outputs |-> outputs, rhs |-> rhs, calls |-> calls,
   allocated |-> allocated, released |-> released]

NoFit == FitResult(ERROR_ID_NO, NULL, "none", NULL, NULL, NULL, NULL, <<>>, {}, <<>>)

\* the blocks allocated before LINEAR_from_matrix is called
FitTemporaries(sigma) ==
  IF IsNull(sigma) THEN {Address("A", 0)} ELSE {Address("A", 0), Address("b_sigma", 0)}

\* the cleanup of lines 353-356: b_sigma was moved back by one element at line 339
FitCleanup(sigma) ==
  <<Address("A", 0), Address("linsys", 0)>>
    \o (IF IsNull(sigma) THEN <<>> ELSE <<Address("b_sigma", -1)>>)

\* delete[] of an address that new[] did not return is undefined: the run is
\* aborted by the allocator, or goes on (survives)
FitCleanupFault(sigma, survives) ==
  IF IsNull(sigma) \/ survives THEN "none" ELSE "bad_delete"

\* lines 351-356: the cleanup, after the calls made on the system
FitFinish(d, rc, xOut, calls, A, built, sigma, rhs, survives) ==
  FitResult(rc, xOut, FitCleanupFault(sigma, survives), A, built,
            [sigmasquare |-> d.sigmasquare, covar |-> d.covar], rhs,
            <<"LINEAR_from_matrix", "LINEAR_set_weight", "LINEAR_decompose">> \o calls,
            FitTemporaries(sigma) \cup {Address("linsys", 0)},
            FitCleanup(sigma))

\* lines 349-351: solve only when the decompose succeeded; d is what
\* LINEAR_decompose returned, sol what LINEAR_solve returns
FitSolveIfDecomposed(d, sol, A, built, sigma, rhs, x, survives) ==
  IF d.rc # ERROR_ID_NO
  THEN FitFinish(d, d.rc, x, <<>>, A, built, sigma, rhs, survives)
  ELSE FitFinish(d, sol.rc, sol.x, <<"LINEAR_solve">>, A, built, sigma, rhs, survives)

\* LINEAR_solve on the system LINEAR_decompose left, when it succeeded
FitSolution(d, rhs, x) ==
  IF d.rc # ERROR_ID_NO THEN [rc |-> d.rc, x |-> x]
  ELSE [rc |-> ERROR_ID_NO, x |-> Denormalize(d.s, BackendSolve(d.s, rhs, x))]

\* lines 349-356 for what LINEAR_decompose returned
FitDecomposed(d, A, built, sigma, rhs, x, survives) ==
  FitSolveIfDecomposed(d, FitSolution(d, rhs, x), A, built, sigma, rhs, x, survives)

\* lines 346-356 for the system that line 345 built
FitBuilt(built, A, sigma, rhs, x, survives) ==
  FitDecomposed(LINEAR_decompose(LINEAR_set_weight(built, sigma), NULL, NULL),
                A, built, sigma, rhs, x, survives)

\* lines 345-356: the system is built, weighted, decomposed and solved; what
\* LINEAR_alloc leaves uninitialised is overwritten before it is read
FitSolve(num_eqs, num_unknowns, A, sigma, rhs, x, survives) ==
  FitBuilt(FromMatrixCopy(LINEAR_alloc(num_eqs, num_unknowns, DECOMP_EIGEN_QR,
                                       Zero, Zero, Zero), A),
           A, sigma, rhs, x, survives)

\* fail is the allocation that cannot be satisfied ("none", "A", "b_sigma" or
\* "linsys"); junkB, past and survives resolve the undefined behaviour
LINEAR_fit_poly(num_eqs, poly_order, a, sigma, b, x, fail, junkB, past, survives) ==
  IF fail = "A"
  THEN FitResult(ERROR_ID_ALLOC, x, "none", NULL, NULL, NULL, NULL, <<>>, {}, <<>>)
  ELSE IF fail = "b_sigma" /\ ~IsNull(sigma)
  THEN FitResult(ERROR_ID_NO, x, "bad_alloc",
                 Vandermonde(num_eqs, 1 + poly_order, a), NULL, NULL, NULL, <<>>,
                 {Address("A", 0)}, <<>>)
  ELSE IF fail = "linsys"
  THEN FitResult(ERROR_ID_NO, x, AllocOutcome(DECOMP_EIGEN_QR, "new"),
                 Vandermonde(num_eqs, 1 + poly_order, a), NULL, NULL, NULL,
                 <<"LINEAR_from_matrix">>, FitTemporaries(sigma), <<>>)
  ELSE FitSolve(num_eqs, 1 + poly_order, Vandermonde(num_eqs, 1 + poly_order, a),
                sigma,
                IF IsNull(sigma) THEN b
                ELSE WeightedRhs(num_eqs, sigma, b, junkB, past),
                x, survives)

(***************************************************************************)
(* frm4doas_read.cpp: the reader of FRM4DOAS netCDF files                  *)
(*                                                                         *)
(* The engine context keeps the fields the reader writes or tests:         *)
(* recordNumber, n_alongtrack, n_crosstrack, the buffers, recordInfo and   *)
(* the project's selection settings.  Of recordInfo the model keeps the    *)
(* day of present_datetime, maxdoas.measurementType and                    *)
(* elevationViewAngle; the other fields are copied from the metadata in    *)
(* the same way and take no part in the return code.                       *)
(***************************************************************************)
ERROR_ID_NETCDF == "ERROR_ID_NETCDF"
ERROR_ID_FILE_END == "ERROR_ID_FILE_END"
ERROR_ID_FILE_RECORD == "ERROR_ID_FILE_RECORD"

PRJCT_INSTR_MAXDOAS_TYPE_NONE == "PRJCT_INSTR_MAXDOAS_TYPE_NONE"
PRJCT_INSTR_MAXDOAS_TYPE_OFFAXIS == "PRJCT_INSTR_MAXDOAS_TYPE_OFFAXIS"
PRJCT_INSTR_MAXDOAS_TYPE_DIRECTSUN == "PRJCT_INSTR_MAXDOAS_TYPE_DIRECTSUN"
PRJCT_INSTR_MAXDOAS_TYPE_ZENITH == "PRJCT_INSTR_MAXDOAS_TYPE_ZENITH"

\* the threshold of the elevation test; it is below the resolution 1/Scale
EPSILON == Zero

RFabs(p) == IF p = NaN THEN NaN ELSE Abs(p)

\* the pixels of the detector: det_size is their number
Pixels == {0, 1}

\* no file is open: the static current_file and the unloaded data fields
NoFile == [open |-> FALSE, number_of_records |-> 0, MT |-> NULL, VEA |-> NULL]

\* getVar of one record of "wavelength", "radiance" and "radiance_error"; the
\* file holds no radiance_error, so that getVar hands back its fill value 1.
Wavelength(recordNo) == [i \in Pixels |-> Num(300 + i)]
Radiance(recordNo) == [i \in Pixels |-> Num((10 * recordNo) + i)]
RadianceError(recordNo) == [i \in Pixels |-> One]

\* the day of the "datetime" metadata of a record
Datetime(file, i_alongtrack) == 1 + i_alongtrack

\* a metadata field of a record, or the default when the field was not loaded
DataField(varData, i_alongtrack, default) ==
  IF IsNull(varData) THEN default ELSE varData[1 + i_alongtrack]

\* FRM4DOAS_Set: opens the file and loads the metadata; throws says that the
\* opening of the file raises std::runtime_error, which the function catches
FRM4DOAS_Set(ctx, old, file, throws) ==
  IF throws
  THEN [rc |-> ERROR_ID_NETCDF, ctx |-> ctx, file |-> old]
  ELSE [rc |-> ERROR_ID_NO,
        ctx |-> [ctx EXCEPT !.n_alongtrack = file.number_of_records,
                            !.recordNumber = file.number_of_records,
                            !.n_crosstrack = 1,
                            !.buffers.irrad = [i \in Pixels |-> Zero]],
        file |-> file]

\* the test on a record when a reference spectrum is searched for (dateFlag)
ReferenceRejected(ctx, recordInfo) ==
  \/ recordInfo.maxdoas.measurementType # PRJCT_INSTR_MAXDOAS_TYPE_ZENITH
  \/ /\ RLess(EPSILON, RFabs(RAdd(recordInfo.elevationViewAngle, One)))
     /\ \/ RLess(recordInfo.elevationViewAngle,
                 RSub(ctx.project.spectra.refAngle, ctx.project.spectra.refTol))
        \/ RLess(RAdd(ctx.project.spectra.refAngle, ctx.project.spectra.refTol),
                 recordInfo.elevationViewAngle)

\* the test on a record against the measurement type the user asked for
TypeRejected(measurementType, recordInfo) ==
  \/ /\ measurementType = PRJCT_INSTR_MAXDOAS_TYPE_OFFAXIS
     /\ recordInfo.maxdoas.measurementType # PRJCT_INSTR_MAXDOAS_TYPE_OFFAXIS
     /\ recordInfo.maxdoas.measurementType # PRJCT_INSTR_MAXDOAS_TYPE_ZENITH
  \/ /\ measurementType # PRJCT_INSTR_MAXDOAS_TYPE_OFFAXIS
     /\ recordInfo.maxdoas.measurementType # measurementType

\* the spectra of the record, loaded only when no reference is searched for
ReadSpectra(ctx, recordNo, dateFlag) ==
  IF dateFlag THEN ctx
  ELSE [ctx EXCEPT !.buffers.lambda_irrad = Wavelength(recordNo),
                   !.buffers.lambda = Wavelength(recordNo),
                   !.buffers.spectrum = Radiance(recordNo),
                   !.buffers.sigmaSpec = RadianceError(recordNo)]

\* the metadata of the record
ReadRecordInfo(file, i_alongtrack) ==
  [present_datetime |-> [thedate |-> [da_day |-> Datetime(file, i_alongtrack)]],
   elevationViewAngle |-> DataField(file.VEA, i_alongtrack, Zero),
   maxdoas |-> [measurementType |->
                  DataField(file.MT, i_alongtrack, PRJCT_INSTR_MAXDOAS_TYPE_NONE)]]

\* the return code of a record that was read
SelectRecord(ctx, dateFlag, measurementType) ==
  IF dateFlag /\ ReferenceRejected(ctx, ctx.recordInfo)
  THEN ERROR_ID_FILE_RECORD
  ELSE IF /\ ~dateFlag
          /\ measurementType # PRJCT_INSTR_MAXDOAS_TYPE_NONE
          /\ TypeRejected(measurementType, ctx.recordInfo)
       THEN ERROR_ID_FILE_RECORD
       ELSE ERROR_ID_NO

\* the record is read into ctx, then tested
ReadRecord(ctx, dateFlag) ==
  [rc |-> SelectRecord(ctx, dateFlag, ctx.project.instrumental.user), ctx |-> ctx]

\* FRM4DOAS_Read that takes the last record of the file for past the end
FRM4DOAS_Read_LastRecordExcluded(ctx, file, recordNo, dateFlag) ==
  IF (recordNo <= 0) \/ (recordNo >= ctx.recordNumber)
  THEN [rc |-> ERROR_ID_FILE_END, ctx |-> ctx]
  ELSE ReadRecord([ReadSpectra(ctx, recordNo, dateFlag)
                     EXCEPT !.recordInfo = ReadRecordInfo(file, recordNo - 1)],
                  dateFlag)

\* FRM4DOAS_Read
FRM4DOAS_Read(ctx, file, recordNo, dateFlag) ==
  IF (recordNo <= 0) \/ (recordNo > ctx.recordNumber)
  THEN [rc |-> ERROR_ID_FILE_END, ctx |-> ctx]
  ELSE ReadRecord([ReadSpectra(ctx, recordNo, dateFlag)
                     EXCEPT !.recordInfo = ReadRecordInfo(file, recordNo - 1)],
                  dateFlag)

(***************************************************************************)
(* The state: one handle and its caller's buffers                          *)
(***************************************************************************)
VARIABLES
  s,            \* the struct linear_system behind the caller's handle, or NoSystem
  x,            \* the caller's solution buffer, indexed from 1
  sigmasquare,  \* the caller's variance buffer, indexed from 1
  covar,        \* the caller's covariance buffer, indexed from 1
  rc,           \* what the last call returned
  op,           \* the last call: its name and its arguments
  decomposed,   \* a decompose of this handle has succeeded
  fault,        \* "none", or how the last call left the module abnormally
  calls,        \* calls made on the handle since it was built, or on the file reader
  fit,          \* what the last LINEAR_fit_poly did: its calls and its allocations
  pinv,         \* the caller's pseudoinverse buffer, indexed [1..m][1..n]
  pEngineContext, \* the engine context handed to the file reader, or NULL
  current_file  \* the file the reader has open and its loaded metadata

vars == <<s, x, sigmasquare, covar, rc, op, decomposed, fault, calls, fit, pinv,
          pEngineContext, current_file>>

\* the state of the file reader
reader == <<pEngineContext, current_file>>

\* the state that the calls above do not touch
outside == <<fit, pinv, reader>>

(***************************************************************************)
(* The inputs the calls are made with                                      *)
(***************************************************************************)
Pad(v, m) == [i \in 1..m |-> IF i <= Len(v) THEN Num(v[i]) ELSE Zero]

\* columns of m values, indexed from 1
ColumnInputs(m) == {Pad(<<0, 0, 0>>, m), Pad(<<3, 4, 0>>, m), Pad(<<2, 3, 6>>, m)}

\* matrices a[column][row], indexed from 1
MatrixInputs(m, n) == [1..n -> ColumnInputs(m)]

\* per-equation standard deviations, indexed from 0, or NULL
SigmaInputs(m) ==
  {NULL, [i \in 0..(m - 1) |-> One], [i \in 0..(m - 1) |-> Num(2 ^ i)]}

\* right-hand sides, indexed from 1
RhsInputs(m) ==
  {[i \in 1..m |-> Num(i)], [i \in 1..m |-> IF i = 1 THEN Num(5) ELSE Zero]}

\* what uninitialised doubles may hold: any bit pattern, a NaN included
Junk == {Zero, Num(7), NaN}

\* which allocation of a constructor cannot be satisfied: none, one made with
\* operator new, or (SVD mode only) one made with MEMORY_AllocDMatrix/DVector
AllocFailures(mode) ==
  IF mode = DECOMP_SVD THEN {"none", "new", "MEMORY_Alloc"} ELSE {"none", "new"}

NoCall == [name |-> "none"]

\* polynomial orders, samples a (indexed from 1) and allocation failures of
\* LINEAR_fit_poly
PolyOrders == {0, 1, 2}
FitSamples(m) ==
  {[j \in 1..m |-> Zero], [j \in 1..m |-> Num(j)], [j \in 1..m |-> Num(2)]}
FitFailures(sigma) ==
  {"none", "A", "linsys"} \cup (IF IsNull(sigma) THEN {} ELSE {"b_sigma"})

\* the caller's x before LINEAR_fit_poly
FitX(poly_order) == [j \in 1..(1 + poly_order) |-> Num(9)]

Init ==
  /\ s = NoSystem
  /\ x = NULL
  /\ sigmasquare = NULL
  /\ covar = NULL
  /\ rc = ERROR_ID_NO
  /\ op = NoCall
  /\ decomposed = FALSE
  /\ fault = "none"
  /\ calls = 0
  /\ fit = NoFit
  /\ pinv = NULL
  /\ pEngineContext = NULL
  /\ current_file = NoFile

\* the caller's buffers for a system of n unknowns
CallerBuffers(n) ==
  /\ x' = [j \in 1..n |-> Zero]
  /\ sigmasquare' = [j \in 1..n |-> Zero]
  /\ covar' = [i \in 1..n |-> [j \in 1..n |-> Zero]]

\* LINEAR_alloc, called by the owner of a fresh handle
Alloc ==
  \E n \in Unknowns, mode \in Modes, junkNorms \in Junk, junkA \in Junk, junkSVD \in Junk :
    \E fail \in AllocFailures(mode) :
      /\ op = NoCall
      /\ op' = [name |-> "LINEAR_alloc", m |-> Rows, n |-> n, mode |-> mode, fail |-> fail]
      /\ fault' = IF AllocOutcome(mode, fail) = "ok" THEN "none" ELSE AllocOutcome(mode, fail)
      /\ s' = IF AllocOutcome(mode, fail) = "ok"
              THEN LINEAR_alloc(Rows, n, mode, junkNorms, junkA, junkSVD)
              ELSE NoSystem
      /\ CallerBuffers(n)
      /\ UNCHANGED <<rc, decomposed, calls>>
      /\ UNCHANGED outside

\* LINEAR_from_matrix, called by the owner of a fresh handle
FromMatrix ==
  \E n \in Unknowns, mode \in Modes, junkNorms \in Junk, junkA \in Junk, junkSVD \in Junk :
    \E fail \in AllocFailures(mode), a \in MatrixInputs(Rows, n) :
      /\ op = NoCall
      /\ op' = [name |-> "LINEAR_from_matrix", a |-> a, m |-> Rows, n |-> n,
                mode |-> mode, fail |-> fail]
      /\ fault' = IF AllocOutcome(mode, fail) = "ok" THEN "none" ELSE AllocOutcome(mode, fail)
      /\ s' = IF AllocOutcome(mode, fail) = "ok"
              THEN LINEAR_from_matrix(a, Rows, n, mode, junkNorms, junkA, junkSVD)
              ELSE NoSystem
      /\ CallerBuffers(n)
      /\ UNCHANGED <<rc, decomposed, calls>>
      /\ UNCHANGED outside

\* a call on the live handle
CanCall == IsSystem(s) /\ fault = "none" /\ calls < MaxCalls

SetColumn ==
  /\ CanCall
  /\ \E j \in 1..s.n, values \in ColumnInputs(s.m) :
       /\ s' = LINEAR_set_column(s, j, values)
       /\ op' = [name |-> "LINEAR_set_column", n |-> j, values |-> values]
  /\ calls' = calls + 1
  /\ UNCHANGED <<x, sigmasquare, covar, rc, decomposed, fault>>
  /\ UNCHANGED outside

SetWeight ==
  /\ CanCall
  /\ \E sigma \in SigmaInputs(s.m) :
       /\ s' = LINEAR_set_weight(s, sigma)
       /\ op' = [name |-> "LINEAR_set_weight", sigma |-> sigma]
  /\ calls' = calls + 1
  /\ UNCHANGED <<x, sigmasquare, covar, rc, decomposed, fault>>
  /\ UNCHANGED outside

Decompose ==
  /\ CanCall
  /\ \E wantSigma \in BOOLEAN, wantCovar \in BOOLEAN :
       LET r == LINEAR_decompose(s, IF wantSigma THEN sigmasquare ELSE NULL,
                                    IF wantCovar THEN covar ELSE NULL)
       IN /\ s' = r.s
          /\ rc' = r.rc
          /\ sigmasquare' = IF wantSigma THEN r.sigmasquare ELSE sigmasquare
          /\ covar' = IF wantCovar THEN r.covar ELSE covar
          /\ decomposed' = (r.rc = ERROR_ID_NO)
          /\ op' = [name |-> "LINEAR_decompose", sigmasquare |-> wantSigma,
                    covar |-> wantCovar]
          \* an output that was passed as NULL and comes back written was
          \* written through the null pointer
          /\ fault' = IF \/ (~wantSigma /\ ~IsNull(r.sigmasquare))
                         \/ (~wantCovar /\ ~IsNull(r.covar))
                      THEN "null_write" ELSE fault
  /\ calls' = calls + 1
  /\ UNCHANGED x
  /\ UNCHANGED outside

\* the caller's contract: solve only what the last decompose factorised
Solve ==
  /\ CanCall
  /\ decomposed
  /\ \E b \in RhsInputs(s.m) :
       LET r == LINEAR_solve(s, b, x)
       IN /\ s' = r.s
          /\ x' = r.x
          /\ rc' = r.rc
          /\ op' = [name |-> "LINEAR_solve", b |-> b,
                    \* this call repeats the call before it
                    again |-> (op.name = "LINEAR_solve" /\ op.b = b)]
  /\ calls' = calls + 1
  /\ UNCHANGED <<sigmasquare, covar, decomposed, fault>>
  /\ UNCHANGED outside

\* LINEAR_free: nothing for a null handle
Free ==
  /\ fault = "none"
  /\ op.name # "LINEAR_free"
  /\ s' = NoSystem
  /\ op' = [name |-> "LINEAR_free"]
  /\ decomposed' = FALSE
  /\ UNCHANGED <<x, sigmasquare, covar, rc, fault, calls>>
  /\ UNCHANGED outside

\* the caller's pseudoinverse buffer before LINEAR_pinv
PinvBuffer(m, n) == [i \in 1..m |-> [j \in 1..n |-> Num(9)]]

\* LINEAR_pinv; the caller's contract asks for a decomposed system
Pinv ==
  /\ CanCall
  /\ decomposed
  /\ \E ndebug \in BOOLEAN, crashes \in BOOLEAN, junk \in Junk :
       LET r == LINEAR_pinv(s, PinvBuffer(s.m, s.n), ndebug, crashes, junk)
       IN /\ pinv' = r.pinv
          /\ fault' = r.fault
          /\ op' = [name |-> "LINEAR_pinv", ndebug |-> ndebug]
  /\ calls' = calls + 1
  /\ UNCHANGED <<s, x, sigmasquare, covar, rc, decomposed, fit>>
  /\ UNCHANGED reader

\* LINEAR_fit_poly, called on its own
FitPoly ==
  \E poly_order \in PolyOrders, a \in FitSamples(Rows), sigma \in SigmaInputs(Rows),
     b \in RhsInputs(Rows), junkB \in Junk, past \in Junk, survives \in BOOLEAN :
    \E fail \in FitFailures(sigma) :
      LET r == LINEAR_fit_poly(Rows, poly_order, a, sigma, b, FitX(poly_order),
                               fail, junkB, past, survives)
      IN /\ op = NoCall
         /\ op' = [name |-> "LINEAR_fit_poly", num_eqs |-> Rows,
                   poly_order |-> poly_order, a |-> a, sigma |-> sigma, b |-> b,
                   fail |-> fail]
         /\ fit' = r
         /\ x' = r.x
         /\ fault' = r.fault
         /\ rc' = IF r.fault = "none" THEN r.rc ELSE rc
         /\ UNCHANGED <<s, sigmasquare, covar, decomposed, calls, pinv>>
         /\ UNCHANGED reader

\* the measurement types of the records of a file and of the user's choice
MeasurementTypes ==
  {PRJCT_INSTR_MAXDOAS_TYPE_OFFAXIS, PRJCT_INSTR_MAXDOAS_TYPE_DIRECTSUN,
   PRJCT_INSTR_MAXDOAS_TYPE_ZENITH}

\* viewing elevation angles: -1 (not known), off axis, at the reference angle
Elevations == {RNeg(One), Num(30), Num(90)}

RecordNumbers == {0, 1, 2}

\* the files: a field is loaded for every record or not at all
Files ==
  UNION {{[open |-> TRUE, number_of_records |-> n, MT |-> mt, VEA |-> vea] :
            mt \in {NULL} \cup [1..n -> MeasurementTypes],
            vea \in {NULL} \cup [1..n -> Elevations]} : n \in RecordNumbers}

\* the engine context a file is opened with: buffers of det_size entries, no
\* record yet, and the selection settings of the project
EngineContexts ==
  {[recordNumber |-> 0, n_alongtrack |-> 0, n_crosstrack |-> 0,
    buffers |-> [lambda |-> [i \in Pixels |-> Num(9)],
                 lambda_irrad |-> [i \in Pixels |-> Num(9)],
                 spectrum |-> [i \in Pixels |-> Num(9)],
                 sigmaSpec |-> [i \in Pixels |-> Num(9)],
                 irrad |-> [i \in Pixels |-> Num(9)]],
    recordInfo |-> [present_datetime |-> [thedate |-> [da_day |-> 0]],
                    elevationViewAngle |-> Zero,
                    maxdoas |-> [measurementType |-> PRJCT_INSTR_MAXDOAS_TYPE_NONE]],
    project |-> [instrumental |-> [user |-> user],
                 spectra |-> [refAngle |-> Num(90), refTol |-> Num(5)]]] :
     user \in MeasurementTypes \cup {PRJCT_INSTR_MAXDOAS_TYPE_NONE}}

\* FRM4DOAS_Set on a file, with the engine context prepared for it
Set ==
  \E ctx \in EngineContexts, file \in Files, throws \in BOOLEAN :
    LET r == FRM4DOAS_Set(ctx, current_file, file, throws)
    IN /\ op = NoCall
       /\ op' = [name |-> "FRM4DOAS_Set", throws |-> throws]
       /\ pEngineContext' = r.ctx
       /\ current_file' = r.file
       /\ rc' = r.rc
       /\ calls' = calls + 1
       /\ UNCHANGED <<s, x, sigmasquare, covar, decomposed, fault, fit, pinv>>

\* FRM4DOAS_Read of a record of the file that FRM4DOAS_Set opened
Read ==
  \E recordNo \in -1..3, dateFlag \in BOOLEAN :
    LET r == FRM4DOAS_Read(pEngineContext, current_file, recordNo, dateFlag)
    IN /\ op.name \in {"FRM4DOAS_Set", "FRM4DOAS_Read"}
       /\ current_file.open
       /\ calls < MaxCalls
       /\ op' = [name |-> "FRM4DOAS_Read", recordNo |-> recordNo, dateFlag |-> dateFlag]
       /\ pEngineContext' = r.ctx
       /\ rc' = r.rc
       /\ calls' = calls + 1
       /\ UNCHANGED <<s, x, sigmasquare, covar, decomposed, fault, fit, pinv,
                      current_file>>

Next ==
  \/ Set
  \/ Read
  \/ FitPoly
  \/ Alloc
  \/ FromMatrix
  \/ SetColumn
  \/ SetWeight
  \/ Decompose
  \/ Solve
  \/ Pinv
  \/ Free

Spec == Init /\ [][Next]_vars

(***************************************************************************)
(* Properties                                                              *)
(***************************************************************************)
\* the stored design matrix of s has a column whose entries are all zero
HasZeroColumn(sys) ==
  \E j \in 1..sys.n : \A i \in 1..sys.m : Entry(sys, i, j) = Zero

\* C1: in either mode, LINEAR_decompose of a system whose design matrix has an
\* all-zero column returns ERROR_ID_NORMALIZE, never ERROR_ID_NO.
C1_ZeroColumnRejected ==
  [][(op'.name = "LINEAR_decompose" /\ HasZeroColumn(s))
       => (rc' = ERROR_ID_NORMALIZE /\ rc' # ERROR_ID_NO)]_vars

\* a QR-mode system whose second column is zero and whose first is not was
\* decomposed, and the call failed
C1_Witness ==
  /\ op.name = "LINEAR_decompose"
  /\ s.mode = DECOMP_EIGEN_QR
  /\ s.n = 2
  /\ \A i \in 1..s.m : Entry(s, i, 2) = Zero
  /\ \E i \in 1..s.m : Entry(s, i, 1) # Zero
  /\ rc = ERROR_ID_NORMALIZE

\* C5: whenever LINEAR_decompose has returned ERROR_ID_NO, every one of the n
\* entries norms[0..n-1] is strictly positive, after any sequence of
\* set_column, set_weight and decompose calls on the system.
C5_NormsPositive ==
  (op.name = "LINEAR_decompose" /\ rc = ERROR_ID_NO)
    => \A j \in 0..(s.n - 1) : RPositive(s.norms[j])

\* C2: LINEAR_solve changes nothing in the system (factorisation, norms, m, n,
\* mode), and a solve that repeats the right-hand side of the solve before it
\* returns the same x.
C2_SolveIsPure ==
  [][op'.name = "LINEAR_solve" => (s' = s /\ (op'.again => x' = x))]_vars

\* a solve has repeated the solve before it, on a system whose norms are not 1,
\* with a non-zero solution
C2_Witness ==
  /\ op.name = "LINEAR_solve"
  /\ op.again
  /\ \E j \in 1..s.n : x[j] # Zero /\ s.norms[j - 1] # One

\* C3: a second LINEAR_decompose right after a successful one has the same
\* effect as the first alone: it succeeds, the norms are the same, and a
\* following LINEAR_solve returns the same x for every b.
C3_DecomposeTwiceSame ==
  [][(op.name = "LINEAR_decompose" /\ rc = ERROR_ID_NO /\ op'.name = "LINEAR_decompose")
       => /\ rc' = ERROR_ID_NO
          /\ s'.norms = s.norms
          /\ \A b \in RhsInputs(s.m) :
               LINEAR_solve(s', b, x).x = LINEAR_solve(s, b, x).x]_vars

\* C4: after a successful decompose norms[j-1] = LINEAR_GetNorm(s, j-1) is the
\* Euclidean norm column j had before the call (and in QR mode the matrix that
\* was factorised is that column divided by it); LINEAR_solve then returns
\* x[j] = (the backend's solution)[j] / norms[j-1] for every j in 1..n.
C4_SolveDenormalizes ==
  [][/\ (op'.name = "LINEAR_decompose" /\ rc' = ERROR_ID_NO) =>
          \A j \in 1..s.n :
            /\ LINEAR_GetNorm(s', j - 1) = RSqrt(SquaredNorm(Column(s, j), 1..s.m))
            /\ s.mode = DECOMP_EIGEN_QR =>
                 \A i \in 1..s.m :
                   s'.decomposition.QR.matrix[i - 1][j - 1]
                     = RDiv(Entry(s, i, j), LINEAR_GetNorm(s', j - 1))
     /\ op'.name = "LINEAR_solve" =>
          \A j \in 1..s.n :
            x'[j] = RDiv(BackendSolve(s, op'.b, x)[j], LINEAR_GetNorm(s, j - 1))]_vars

\* a solve returned a non-zero x[j] that differs from the backend's solution,
\* the norm of column j not being 1
C4_Witness ==
  /\ op.name = "LINEAR_solve"
  /\ \E j \in 1..s.n :
       /\ LINEAR_GetNorm(s, j - 1) # One
       /\ x[j] # Zero
       /\ x[j] # BackendSolve(s, op.b, x)[j]

\* C6: right after LINEAR_alloc every entry of the design-matrix storage and
\* every one of the n norms is zero.
C6_AllocZeroInitialized ==
  (op.name = "LINEAR_alloc" /\ IsSystem(s)) =>
     /\ \A i \in 1..s.m, j \in 1..s.n : Entry(s, i, j) = Zero
     /\ \A j \in 0..(s.n - 1) : s.norms[j] = Zero

\* C7: when an allocation of LINEAR_alloc or LINEAR_from_matrix cannot be
\* satisfied, the call returns a failure to its caller: no exception leaves the
\* module, nothing is written through a null pointer, no handle is returned.
C7_AllocFailureReported ==
  (op.name \in {"LINEAR_alloc", "LINEAR_from_matrix"} /\ op.fail # "none")
     => (fault = "none" /\ ~IsSystem(s))

\* C8: after LINEAR_from_matrix(a, m, n, mode) the stored entry (row i, column j)
\* is a[j][i], and the stored matrix is the same in SVD and in QR mode.
C8_FromMatrixCopies ==
  (op.name = "LINEAR_from_matrix" /\ IsSystem(s)) =>
     /\ \A i \in 1..s.m, j \in 1..s.n : Entry(s, i, j) = op.a[j][i]
     /\ DesignMatrix(LINEAR_from_matrix(op.a, s.m, s.n, DECOMP_SVD, Zero, Zero, Zero))
          = DesignMatrix(LINEAR_from_matrix(op.a, s.m, s.n, DECOMP_EIGEN_QR, Zero, Zero, Zero))

\* an SVD-mode system was built from a matrix with two different non-zero columns
C8_Witness ==
  /\ op.name = "LINEAR_from_matrix"
  /\ IsSystem(s)
  /\ s.mode = DECOMP_SVD
  /\ s.n = 2
  /\ Entry(s, 3, 2) # Zero
  /\ Entry(s, 1, 2) # Entry(s, 2, 1)
  /\ Column(s, 1) # Column(s, 2)

\* C9: LINEAR_set_column(s, j, values) sets entry (i, j) to values[i] for every
\* row i and leaves the other columns, the norms, m, n and mode as they were.
C9_SetColumnFrame ==
  [][op'.name = "LINEAR_set_column" =>
       /\ \A i \in 1..s.m : Entry(s', i, op'.n) = op'.values[i]
       /\ \A i \in 1..s.m, j \in 1..s.n :
            j # op'.n => Entry(s', i, j) = Entry(s, i, j)
       /\ s'.norms = s.norms
       /\ s'.m = s.m /\ s'.n = s.n /\ s'.mode = s.mode]_vars

\* the first column of a two-column QR-mode system was overwritten with
\* non-zero values, the second column being different and not zero
C9_Witness ==
  /\ op.name = "LINEAR_set_column"
  /\ s.mode = DECOMP_EIGEN_QR
  /\ s.n = 2
  /\ op.n = 1
  /\ Column(s, 1) = op.values
  /\ \E i \in 1..s.m : op.values[i] # Zero
  /\ \E i \in 1..s.m : Entry(s, i, 2) # Zero
  /\ Column(s, 2) # Column(s, 1)

\* C10: LINEAR_set_weight with a null sigma changes nothing; otherwise it
\* replaces every entry (i, j) by its value divided by sigma[i-1], in both
\* modes, and changes nothing else of the system.
C10_SetWeightDividesRows ==
  [][op'.name = "LINEAR_set_weight" =>
       IF IsNull(op'.sigma) THEN s' = s
       ELSE /\ \A i \in 1..s.m, j \in 1..s.n :
                 Entry(s', i, j) = RDiv(Entry(s, i, j), op'.sigma[i - 1])
            /\ s'.norms = s.norms
            /\ s'.m = s.m /\ s'.n = s.n /\ s'.mode = s.mode
            /\ s.mode = DECOMP_SVD =>
                 /\ s'.decomposition.V = s.decomposition.V
                 /\ s'.decomposition.W = s.decomposition.W
            /\ s.mode = DECOMP_EIGEN_QR =>
                 s'.decomposition.QR = s.decomposition.QR]_vars

\* an SVD-mode system was weighted with a sigma that differs from row to row,
\* and an entry outside the first row changed
C10_Witness ==
  /\ op.name = "LINEAR_set_weight"
  /\ ~IsNull(op.sigma)
  /\ op.sigma[0] # op.sigma[1]
  /\ s.mode = DECOMP_SVD
  /\ s.n = 2
  /\ \E j \in 1..s.n : Entry(s, 2, j) # Zero /\ Entry(s, 3, j) # Zero

\* sigma[i] = 1 for every equation of sys
UnitSigma(sys) == [i \in 0..(sys.m - 1) |-> One]

\* C11: in either mode, a LINEAR_set_weight with sigma[i] = 1 for all i changes
\* nothing of what a following decompose and solve give: the decompose returns
\* the same code and stores the same norms, and the solve returns the same x for
\* every b, as on the system before the set_weight call.
C11_UnitWeightNeutral ==
  [][(op'.name = "LINEAR_set_weight" /\ op'.sigma = UnitSigma(s)) =>
       LET weighted == LINEAR_decompose(s', NULL, NULL)
           plain == LINEAR_decompose(s, NULL, NULL)
       IN /\ weighted.rc = plain.rc
          /\ weighted.s.norms = plain.s.norms
          /\ plain.rc = ERROR_ID_NO =>
               \A b \in RhsInputs(s.m) :
                 LINEAR_solve(weighted.s, b, x).x = LINEAR_solve(plain.s, b, x).x]_vars

\* a populated two-column system was weighted with sigma = 1, and its decompose
\* succeeds with a non-zero solution
C11_Witness ==
  /\ op.name = "LINEAR_set_weight"
  /\ op.sigma = UnitSigma(s)
  /\ s.n = 2
  /\ ~HasZeroColumn(s)
  /\ LINEAR_decompose(s, NULL, NULL).rc = ERROR_ID_NO
  /\ \E b \in RhsInputs(s.m), j \in 1..s.n :
       LINEAR_solve(LINEAR_decompose(s, NULL, NULL).s, b, x).x[j] # Zero

\* the last LINEAR_fit_poly called the function name
FitCalled(name) == \E k \in DOMAIN fit.calls : fit.calls[k] = name

\* p to the power k, k a natural number
RECURSIVE Power(_, _)
Power(p, k) == IF k = 0 THEN One ELSE RMul(Power(p, k - 1), p)

\* C12: when LINEAR_fit_poly is called with a non-null sigma, entry j of the
\* right-hand side it hands to LINEAR_solve is b[j] divided by the element of
\* sigma by which LINEAR_set_weight divided row j (sigma[j-1]), for every j in
\* 1..num_eqs; it is a function of b and sigma alone.
C12_WeightedRhs ==
  (op.name = "LINEAR_fit_poly" /\ ~IsNull(op.sigma) /\ FitCalled("LINEAR_solve")) =>
     \A j \in 1..op.num_eqs : fit.rhs[j] = RDiv(op.b[j], op.sigma[j - 1])

\* C13: LINEAR_fit_poly builds a system of num_eqs rows and poly_order+1 columns
\* whose entry (row j, column i) is a[j]^(i-1), in QR mode, and calls
\* LINEAR_decompose with null variance and covariance outputs.
C13_VandermondeQR ==
  (op.name = "LINEAR_fit_poly" /\ ~IsNull(fit.built)) =>
     /\ fit.built.m = op.num_eqs
     /\ fit.built.n = op.poly_order + 1
     /\ fit.built.mode = DECOMP_EIGEN_QR
     /\ \A j \in 1..op.num_eqs, i \in 1..(op.poly_order + 1) :
          Entry(fit.built, j, i) = Power(op.a[j], i - 1)
     /\ FitCalled("LINEAR_decompose")
     /\ IsNull(fit.outputs.sigmasquare)
     /\ IsNull(fit.outputs.covar)

\* a fit of order 2 on the samples 1, 2, 3 was decomposed: the last entry is 9
C13_Witness ==
  /\ op.name = "LINEAR_fit_poly"
  /\ op.poly_order = 2
  /\ FitCalled("LINEAR_decompose")
  /\ op.a[3] = Num(3)
  /\ Entry(fit.built, 3, 3) = Num(9)
  /\ Entry(fit.built, 2, 2) = Num(2)
  /\ Entry(fit.built, 2, 1) = One

\* C14: LINEAR_fit_poly returns ERROR_ID_ALLOC when one of its temporaries
\* cannot be allocated, and the code of LINEAR_decompose when the decompose
\* fails; in both cases LINEAR_solve is not called and x is not written; it
\* returns ERROR_ID_NO only when decompose and solve both succeeded.
C14_FitPolyPropagates ==
  op.name = "LINEAR_fit_poly" =>
     /\ op.fail # "none" =>
          /\ fault = "none" /\ rc = ERROR_ID_ALLOC
          /\ ~FitCalled("LINEAR_solve") /\ x = FitX(op.poly_order)
     /\ (FitCalled("LINEAR_decompose") /\ ~FitCalled("LINEAR_solve")) =>
          /\ fault = "none" /\ rc = ERROR_ID_NORMALIZE
          /\ x = FitX(op.poly_order)
     /\ (fault = "none" /\ rc = ERROR_ID_NO) => FitCalled("LINEAR_solve")

\* C19: on every exit of LINEAR_fit_poly, every address passed to a release is
\* an address an allocation returned, and every block allocated is released
\* exactly once, so that nothing it allocated stays live.
C19_FitPolyReleases ==
  op.name = "LINEAR_fit_poly" =>
     /\ \A k \in DOMAIN fit.released : fit.released[k] \in fit.allocated
     /\ \A blk \in fit.allocated :
          Cardinality({k \in DOMAIN fit.released : fit.released[k] = blk}) = 1

\* the singular values of sys that are strictly above the tolerance
Retained(sys) ==
  {k \in 1..sys.n : RLess(PinvTolerance(sys), sys.decomposition.W[k])}

\* C15: for a decomposed SVD-mode system LINEAR_pinv fills the whole output:
\* for every i in 1..m and j in 1..n, pinv[i][j] is the sum over the retained
\* singular values k of V[k][j]*U[k][i]/W[k], also when the matrix is
\* rank-deficient.
C15_PinvFormula ==
  (op.name = "LINEAR_pinv" /\ s.mode = DECOMP_SVD) =>
     \A i \in 1..s.m, j \in 1..s.n :
       pinv[i][j] =
         RSum(Retained(s), [k \in Retained(s) |->
            RDiv(RMul(s.decomposition.V[k][j], s.decomposition.U[k][i]),
                 s.decomposition.W[k])])

\* C16 as claimed: LINEAR_pinv on a QR-mode system fails the assertion before
\* any entry of the output is written.
C16_PinvRejectsQR ==
  (op.name = "LINEAR_pinv" /\ s.mode = DECOMP_EIGEN_QR) =>
     (fault = "assert" /\ pinv = PinvBuffer(s.m, s.n))

\* C16 as amended: in a build with assertions enabled (NDEBUG not defined),
\* LINEAR_pinv on a QR-mode system fails the assertion before any entry of the
\* output is written; in such a build it writes its output only in SVD mode.
C16_PinvAssertsQR ==
  (op.name = "LINEAR_pinv" /\ ~op.ndebug) =>
     /\ s.mode = DECOMP_EIGEN_QR => (fault = "assert" /\ pinv = PinvBuffer(s.m, s.n))
     /\ pinv # PinvBuffer(s.m, s.n) => s.mode = DECOMP_SVD

\* LINEAR_pinv was called on a decomposed QR system in a build with assertions
C16_Witness ==
  /\ op.name = "LINEAR_pinv"
  /\ ~op.ndebug
  /\ s.mode = DECOMP_EIGEN_QR
  /\ decomposed
  /\ fault = "assert"

\* C17: LINEAR_decompose writes the caller's covariance buffer only when covar
\* is non-null and the caller's variance buffer only when sigmasquare is
\* non-null, each independently of the other and in both modes; it writes
\* nothing through a null pointer and no other buffer of the caller.
C17_OptionalOutputs ==
  [][op'.name = "LINEAR_decompose" =>
       /\ fault' = "none"
       /\ ~op'.covar => covar' = covar
       /\ ~op'.sigmasquare => sigmasquare' = sigmasquare
       /\ x' = x /\ pinv' = pinv]_vars

\* a successful decompose was given the variance buffer and no covariance
\* buffer: the variances are written, the covariance buffer is as it was
C17_Witness ==
  /\ op.name = "LINEAR_decompose"
  /\ op.sigmasquare /\ ~op.covar
  /\ rc = ERROR_ID_NO
  /\ calls = 1
  /\ \A j \in 1..s.n : RPositive(sigmasquare[j])
  /\ covar = [i \in 1..s.n |-> [j \in 1..s.n |-> Zero]]

\* the first column of sys whose squared norm is zero
FirstZeroNorm(sys) ==
  CHOOSE j \in 1..sys.n :
    /\ RIsZero(SquaredNorm(Column(sys, j), 1..sys.m))
    /\ \A k \in 1..(j - 1) : ~RIsZero(SquaredNorm(Column(sys, k), 1..sys.m))

\* C20: when LINEAR_decompose fails with ERROR_ID_NORMALIZE at the first zero
\* column j, no factorisation is computed and neither covar nor sigmasquare is
\* written, but nothing is rolled back: every column before j is left divided
\* by its norm, with that norm stored in norms, and the columns from j on are
\* as they were; so the design matrix has changed whenever a column before j
\* had a norm other than 1.
C20_FailedDecomposeNoRollback ==
  [][(op'.name = "LINEAR_decompose" /\ rc' = ERROR_ID_NORMALIZE) =>
       /\ \A k \in 1..(FirstZeroNorm(s) - 1) :
            /\ s'.norms[k - 1] = RSqrt(SquaredNorm(Column(s, k), 1..s.m))
            /\ \A i \in 1..s.m :
                 Entry(s', i, k) = RDiv(Entry(s, i, k), s'.norms[k - 1])
       /\ \A k \in FirstZeroNorm(s)..s.n : Column(s', k) = Column(s, k)
       /\ s.mode = DECOMP_EIGEN_QR => s'.decomposition.QR = s.decomposition.QR
       /\ s.mode = DECOMP_SVD =>
            /\ s'.decomposition.V = s.decomposition.V
            /\ s'.decomposition.W = s.decomposition.W
       /\ covar' = covar /\ sigmasquare' = sigmasquare
       /\ (\E k \in 1..(FirstZeroNorm(s) - 1) :
             /\ RPositive(s'.norms[k - 1])
             /\ ~(s'.norms[k - 1] \in (One - 1)..(One + 1)))
            => DesignMatrix(s') # DesignMatrix(s)]_vars

\* a decompose that was given both output buffers failed at the second column
\* of a QR system whose first column had norm 5: the first column is left
\* normalised
C20_Witness ==
  /\ op.name = "LINEAR_decompose"
  /\ op.sigmasquare /\ op.covar
  /\ rc = ERROR_ID_NORMALIZE
  /\ s.mode = DECOMP_EIGEN_QR
  /\ s.n = 2
  /\ s.norms[0] = Num(5)
  /\ Column(s, 1) = [i \in 1..s.m |-> IF i = 1 THEN 60 ELSE IF i = 2 THEN 80 ELSE Zero]
  /\ \A i \in 1..s.m : Entry(s, i, 2) = Zero

\* the record satisfies the criteria of a search for a reference spectrum:
\* a zenith measurement whose elevation is not known (-1) or lies within
\* refTol of refAngle
ReferenceCriteria(ctx) ==
  /\ ctx.recordInfo.maxdoas.measurementType = PRJCT_INSTR_MAXDOAS_TYPE_ZENITH
  /\ \/ ctx.recordInfo.elevationViewAngle = RNeg(One)
     \/ /\ ctx.recordInfo.elevationViewAngle
             >= ctx.project.spectra.refAngle - ctx.project.spectra.refTol
        /\ ctx.recordInfo.elevationViewAngle
             <= ctx.project.spectra.refAngle + ctx.project.spectra.refTol

\* the record satisfies the measurement type the user asked for: any type when
\* none was asked for, off-axis or zenith for off-axis, else the very type
MeasurementTypeCriteria(ctx) ==
  LET user == ctx.project.instrumental.user
      mt == ctx.recordInfo.maxdoas.measurementType
  IN \/ user = PRJCT_INSTR_MAXDOAS_TYPE_NONE
     \/ /\ user = PRJCT_INSTR_MAXDOAS_TYPE_OFFAXIS
        /\ mt \in {PRJCT_INSTR_MAXDOAS_TYPE_OFFAXIS, PRJCT_INSTR_MAXDOAS_TYPE_ZENITH}
     \/ /\ user # PRJCT_INSTR_MAXDOAS_TYPE_OFFAXIS
        /\ mt = user

=============================================================================
